---- MODULE Spec2Model ----
(***************************************************************************)
(* Model of notlogin.c: the placeholder login program of Miniserver.       *)
(*                                                                         *)
(*   int main(int argc, char** argv) {                                     *)
(*     printf("Miniserver does not provide a login prompt. ...\n"          *)
(*            "If you need to execute a command, do so via ssh.\n");       *)
(*     sigset_t sigmask;                                                   *)
(*     sigemptyset(&sigmask);                                              *)
(*     while (1) sigsuspend(&sigmask);                                     *)
(*   }                                                                     *)
(*                                                                         *)
(* The program's state is the state of its process: the program counter,   *)
(* the stdio buffer of stdout and what has reached file descriptor 1, the  *)
(* blocked-signal mask, the pending signals and the local sigmask.  The    *)
(* process starts in what it inherits over exec: its arguments, a blocked  *)
(* mask, a set of ignored signals (exec keeps SIG_IGN and resets every     *)
(* caught signal to SIG_DFL) and a standard output that is a terminal or   *)
(* not.  The program installs no handler, so every signal has the action   *)
(* "terminate" or "ignore".  Job-control stop and continue signals are not *)
(* among the modelled signals.                                             *)
(*                                                                         *)
(* Two invocations run side by side: they are started in the same          *)
(* environment with (possibly) different arguments and are given the same  *)
(* steps and the same signals, so that what depends on the arguments shows *)
(* as a difference between them.                                           *)
(***************************************************************************)
EXTENDS Naturals, Sequences, FiniteSets

VARIABLES run, env, sent

vars == <<run, env, sent>>

\* ------------------------------------------------------------- bounds
\* Signals sent to the process in one behaviour.
MaxSignals == 3

\* ---------------------------------------------------------- environment
Invocations == {1, 2}

\* argv of an invocation; argv[1] here is C's argv[0].
Argvs == { <<"notlogin">>, <<"-notlogin">>, <<"notlogin", "--help">> }

Signals == {"SIGINT", "SIGKILL", "SIGTERM", "SIGCHLD"}

\* signal(7): default action Term.
DefaultFatal == {"SIGINT", "SIGKILL", "SIGTERM"}

\* signal(7): default action Ign.
DefaultIgnore == {"SIGCHLD"}

\* SIGKILL can be neither blocked nor ignored.
Blockable == Signals \ {"SIGKILL"}

Signo == [s \in Signals |->
            CASE s = "SIGINT"  -> 2
              [] s = "SIGKILL" -> 9
              [] s = "SIGTERM" -> 15
              [] s = "SIGCHLD" -> 17]

\* What the storage of the local variable sigmask may hold before
\* sigemptyset initialises it.
StackGarbage == { {}, {"SIGTERM"}, Blockable }

\* The string literal passed to printf, line by line.
Notice ==
  << "Miniserver does not provide a login prompt. It has no shell anyway.\n",
     "If you need to execute a command, do so via ssh.\n" >>

\* ------------------------------------------------------- process state
\* pc: "printf" (line 12 not yet executed), "sigemptyset" (line 20 next),
\* "sigsuspend" (line 21: about to call sigsuspend), "suspended" (inside
\* sigsuspend), "terminated" (killed by a signal), "exited" (main returned
\* or called exit; nothing in the source leads here).
Alive == {"printf", "sigemptyset", "sigsuspend", "suspended"}

\* The process right after exec and before main's first statement.
\*   out        what has been written to file descriptor 1
\*   buf        what stdio holds in stdout's buffer
\*   ret        printf's result: "none" (not called), "ok", "error"
\*   mask       the blocked signals of the process
\*   sigmask    the local variable of line 19
\*   pending    the signals generated and held back by mask
\*   held       history: every signal that has ever been pending
\*   delivered  history: the signals whose action has been taken, in order
\*   noticed    history: those of them delivered with the notice written
\*   killedBy   the signal that terminated the process, or "none"
\*   iter       history: completed iterations of the loop of line 21
Exec(argv, e) ==
  [ argv      |-> argv,
    argc      |-> Len(argv),
    pc        |-> "printf",
    out       |-> << >>,
    buf       |-> << >>,
    ret       |-> "none",
    mask      |-> e.mask,
    sigmask   |-> e.stack,
    pending   |-> {},
    held      |-> {},
    delivered |-> << >>,
    noticed   |-> {},
    killedBy  |-> "none",
    iter      |-> 0 ]

\* ------------------------------------------------ variants of the code
\* Each variant below is the definition that follows it with one plausible
\* slip; the properties are required to tell the code from its variant.

\* main that looks at its arguments: anything after argv[0] ends it.
printf_usage(st, tty, ok) ==
  IF st.argc > 1
    THEN [st EXCEPT !.pc = "exited"]
    ELSE [st EXCEPT !.out = IF tty /\ ok THEN Notice ELSE st.out,
                    !.buf = IF tty THEN st.buf ELSE Notice,
                    !.ret = IF tty /\ ~ok THEN "error" ELSE "ok",
                    !.pc = "sigemptyset"]

\* main that tests printf's result and returns on a failure.
printf_checked(st, tty, ok) ==
  IF tty /\ ~ok
    THEN [st EXCEPT !.ret = "error", !.pc = "exited"]
    ELSE [st EXCEPT !.out = IF tty THEN Notice ELSE st.out,
                    !.buf = IF tty THEN st.buf ELSE Notice,
                    !.ret = "ok",
                    !.pc = "sigemptyset"]

\* ------------------------------------------------------------- line 12
\* printf on stdout.  stdout is line buffered when it refers to a terminal:
\* the notice ends in a newline, so it is written out by the call, and the
\* write succeeds (ok) or fails.  Otherwise stdout is fully buffered: the
\* notice is shorter than the buffer, stays in it and printf succeeds.  The
\* result is stored nowhere and nothing tests it.
printf(st, tty, ok) ==
  IF tty
    THEN IF ok
           THEN [st EXCEPT !.out = st.out \o Notice, !.ret = "ok",
                           !.pc = "sigemptyset"]
           ELSE [st EXCEPT !.ret = "error", !.pc = "sigemptyset"]
    ELSE [st EXCEPT !.buf = st.buf \o Notice, !.ret = "ok",
                    !.pc = "sigemptyset"]

\* main without line 20: sigmask keeps what the stack held.
sigemptyset_missing(st) ==
  [st EXCEPT !.pc = "sigsuspend"]

\* ---------------------------------------------------------- lines 19-20
sigemptyset(st) ==
  [st EXCEPT !.sigmask = {}, !.pc = "sigsuspend"]

\* --------------------------------------------------------------- signals
\* The action of signal s: SIG_IGN when inherited as ignored, else SIG_DFL.
SigAction(ignored, s) ==
  IF s \in ignored THEN "ignore"
  ELSE IF s \in DefaultFatal THEN "terminate"
  ELSE "ignore"

\* A process that catches its signals in an empty handler: no signal
\* terminates it.
deliver_caught(st, ignored, s) ==
  [st EXCEPT !.pending = st.pending \ {s},
             !.delivered = Append(st.delivered, s),
             !.noticed = IF st.out # Notice THEN st.noticed
                         ELSE st.noticed \cup {s}]

\* A process that every signal terminates, whatever its action.
deliver_fatal(st, ignored, s) ==
  [st EXCEPT !.pc = "terminated", !.killedBy = s,
             !.pending = st.pending \ {s},
             !.delivered = Append(st.delivered, s),
             !.noticed = IF st.out # Notice THEN st.noticed
                         ELSE st.noticed \cup {s}]

\* Delivery of s: its action is taken.  Termination by a signal does not
\* flush stdio: buf is lost and out stays as it is.
deliver(st, ignored, s) ==
  IF SigAction(ignored, s) = "terminate"
    THEN [st EXCEPT !.pc = "terminated", !.killedBy = s,
                    !.pending = st.pending \ {s},
                    !.delivered = Append(st.delivered, s),
                    !.noticed = IF st.out # Notice THEN st.noticed
                                ELSE st.noticed \cup {s}]
    ELSE [st EXCEPT !.pending = st.pending \ {s},
                    !.delivered = Append(st.delivered, s),
                    !.noticed = IF st.out # Notice THEN st.noticed
                                ELSE st.noticed \cup {s}]

\* The pending signals of S are delivered lowest number first, until one
\* terminates the process.
RECURSIVE deliverAll(_, _, _)
deliverAll(st, ignored, S) ==
  IF S = {} \/ st.pc \notin Alive
    THEN st
    ELSE LET s == CHOOSE x \in S : \A y \in S : Signo[x] <= Signo[y]
         IN  deliverAll(deliver(st, ignored, s), ignored, S \ {s})

\* kill(pid, s) from outside.  A blocked signal stays pending (also an
\* ignored one: Linux keeps a blocked signal whatever its action); an
\* unblocked one is delivered.  A process that is gone is not signalled.
kill(st, ignored, s) ==
  IF st.pc \notin Alive
    THEN st
    ELSE IF s \in st.mask
      THEN [st EXCEPT !.pending = st.pending \cup {s},
                      !.held = st.held \cup {s}]
      ELSE deliver(st, ignored, s)

\* pause() in place of sigsuspend: the mask stays as inherited.
sigsuspend_pause(st, ignored) ==
  [st EXCEPT !.pc = "suspended"]

\* A call that does not block (sigprocmask in place of sigsuspend): the
\* loop spins.
sigsuspend_poll(st, ignored) ==
  IF st.iter < 2
    THEN [st EXCEPT !.mask = st.sigmask \cap Blockable,
                    !.iter = st.iter + 1]
    ELSE [st EXCEPT !.mask = st.sigmask \cap Blockable,
                    !.pc = "suspended"]

\* main without the loop: it returns where line 21 stands, and the return
\* from main flushes stdout.
sigsuspend_return(st, ignored) ==
  [st EXCEPT !.pc = "exited", !.out = st.out \o st.buf, !.buf = << >>]

\* --------------------------------------------------------------- line 21
\* sigsuspend(&sigmask): in one step the mask becomes sigmask (SIGKILL is
\* never blocked) and the pending signals it no longer blocks are
\* delivered; the process then waits, unless one of them terminated it.
\* sigsuspend returns only after a signal-catching function has run, and
\* the process has none, so the call never returns and the loop never
\* starts a second iteration.
sigsuspend(st, ignored) ==
  LET m  == st.sigmask \cap Blockable
      st1 == deliverAll([st EXCEPT !.mask = m], ignored, st.pending \ m)
  IN  IF st1.pc \in Alive THEN [st1 EXCEPT !.pc = "suspended"] ELSE st1

\* ------------------------------------------------------- specification
Init ==
  /\ env \in [ mask    : SUBSET Blockable,
               ignored : SUBSET Blockable,
               tty     : BOOLEAN,
               stack   : StackGarbage ]
  /\ \E a \in [Invocations -> Argvs] :
       run = [i \in Invocations |-> Exec(a[i], env)]
  /\ sent = 0

At(l) == \E i \in Invocations : run[i].pc = l

Printf ==
  /\ At("printf")
  /\ \E ok \in BOOLEAN :
       run' = [i \in Invocations |->
                 IF run[i].pc = "printf"
                   THEN printf(run[i], env.tty, ok) ELSE run[i]]
  /\ UNCHANGED <<env, sent>>

Sigemptyset ==
  /\ At("sigemptyset")
  /\ run' = [i \in Invocations |->
               IF run[i].pc = "sigemptyset"
                 THEN sigemptyset(run[i]) ELSE run[i]]
  /\ UNCHANGED <<env, sent>>

Sigsuspend ==
  /\ At("sigsuspend")
  /\ run' = [i \in Invocations |->
               IF run[i].pc = "sigsuspend"
                 THEN sigsuspend(run[i], env.ignored) ELSE run[i]]
  /\ UNCHANGED <<env, sent>>

Kill ==
  /\ sent < MaxSignals
  /\ \E i \in Invocations : run[i].pc \in Alive
  /\ \E s \in Signals :
       run' = [i \in Invocations |-> kill(run[i], env.ignored, s)]
  /\ sent' = sent + 1
  /\ UNCHANGED env

Next == Printf \/ Sigemptyset \/ Sigsuspend \/ Kill

Spec == Init /\ [][Next]_vars

\* ---------------------------------------------------------- properties
DeliveredSet(st) == { st.delivered[k] : k \in 1..Len(st.delivered) }

TypeOK ==
  /\ sent \in 0..MaxSignals
  /\ \A i \in Invocations :
       /\ run[i].pc \in Alive \cup {"terminated", "exited"}
       /\ run[i].mask \subseteq Blockable
       /\ run[i].pc \in Alive => run[i].pending \subseteq run[i].mask
       /\ run[i].held \subseteq env.mask
       /\ Len(run[i].delivered) <= sent
       /\ run[i].ret \in {"none", "ok", "error"}
       /\ run[i].killedBy \in Signals \cup {"none"}

\* C1: a process that is suspended in sigsuspend, and whose printf did not
\* fail, has the complete notice on its standard output; and nothing the
\* program does precedes the printf call (before it the mask, the local
\* sigmask and the loop are untouched).
C1_NoticeBeforeSuspension ==
  \A i \in Invocations :
    /\ (run[i].pc = "suspended" /\ run[i].ret = "ok") => run[i].out = Notice
    /\ run[i].pc = "printf" =>
         /\ run[i].mask = env.mask
         /\ run[i].sigmask = env.stack
         /\ run[i].iter = 0

\* C1, the part that holds: a suspended process has made its printf call,
\* and the notice is on standard output when stdout is a terminal and the
\* write did not fail; otherwise it is in the stdio buffer or lost.
C1_PrintfBeforeSuspension ==
  \A i \in Invocations :
    run[i].pc = "suspended" =>
      /\ run[i].ret # "none"
      /\ (env.tty /\ run[i].ret = "ok") => run[i].out = Notice
      /\ ~env.tty => run[i].out = << >> /\ run[i].buf = Notice

\* C2: two invocations that differ only in argc/argv and are given the same
\* environment, steps and signals are in the same process state with the
\* same output, the same printf result and the same signal history; and no
\* invocation, whatever its arguments, exits by itself.
C2_ArgumentsIgnored ==
  \A i, j \in Invocations :
    /\ run[i].pc = run[j].pc
    /\ run[i].out = run[j].out
    /\ run[i].buf = run[j].buf
    /\ run[i].ret = run[j].ret
    /\ run[i].delivered = run[j].delivered
    /\ run[i].noticed = run[j].noticed
    /\ run[i].killedBy = run[j].killedBy
    /\ run[i].pc # "exited"

C2_Witness ==
  /\ run[1].argv = <<"notlogin">>
  /\ run[2].argv = <<"notlogin", "--help">>
  /\ run[2].pc = "suspended"
  /\ run[2].out = Notice
  /\ Len(run[2].delivered) > 0

C4_IgnoredSignalsKeepSuspended ==
  /\ [](\A i \in Invocations :
          DeliveredSet(run[i]) \subseteq DefaultIgnore => run[i].pc \in Alive)
  /\ [][\A i \in Invocations :
          ( /\ run[i].pc = "suspended"
            /\ Len(run'[i].delivered) = Len(run[i].delivered) + 1
            /\ run'[i].delivered[Len(run'[i].delivered)] \in DefaultIgnore )
          => run'[i].pc = "suspended"]_vars

C4_Witness ==
  \E i \in Invocations :
    /\ run[i].pc = "suspended"
    /\ run[i].delivered = <<"SIGCHLD", "SIGCHLD">>
    /\ "SIGCHLD" \notin env.ignored
    /\ "SIGCHLD" \notin env.mask

\* C5: the process never exits by itself; it is terminated only by a
\* delivered signal whose default action is to terminate, and while no such
\* signal has been delivered it is alive.
C5_NoExitPath ==
  \A i \in Invocations :
    /\ run[i].pc # "exited"
    /\ run[i].pc = "terminated" =>
         /\ run[i].killedBy \in DefaultFatal
         /\ run[i].killedBy \in DeliveredSet(run[i])
    /\ DeliveredSet(run[i]) \cap DefaultFatal = {} => run[i].pc \in Alive

C5_Witness ==
  \E i \in Invocations :
    /\ run[i].pc = "suspended"
    /\ run[i].killedBy = "none"
    /\ sent = MaxSignals
    /\ DeliveredSet(run[i]) \cap DefaultFatal = {}

\* C6: in the lifetime of a process that has called printf without a
\* failure, the notice is written to standard output exactly once: it is
\* never there more than once, and it is there when the process has ended.
C6_NoticeExactlyOnce ==
  \A i \in Invocations :
    /\ Len(run[i].out) <= Len(Notice)
    /\ (run[i].pc = "terminated" /\ run[i].ret = "ok") => run[i].out = Notice

\* C6, the part that holds: once printf has been called, no step and no
\* signal changes what is on standard output, and the notice is never on
\* it twice.
C6_NothingWrittenAfterPrintf ==
  /\ [](\A i \in Invocations : run[i].out \in {<< >>, Notice})
  /\ [][\A i \in Invocations :
          run[i].pc # "printf" => run'[i].out = run[i].out]_vars

\* C7: a failed write of the notice changes nothing in the control flow:
\* the step after printf is line 20 whether the write failed or not, and a
\* process whose write failed never exits and is terminated only by a
\* signal whose default action is to terminate.
C7_WriteFailureIgnored ==
  /\ [](\A i \in Invocations :
          run[i].ret = "error" =>
            \/ run[i].pc \in Alive \ {"printf"}
            \/ run[i].pc = "terminated" /\ run[i].killedBy \in DefaultFatal)
  /\ [][\A i \in Invocations :
          (run[i].pc = "printf" /\ run'[i].ret # "none")
            => run'[i].pc = "sigemptyset"]_vars

C7_Witness ==
  \E i \in Invocations :
    /\ run[i].ret = "error"
    /\ run[i].out = << >>
    /\ run[i].pc = "suspended"

\* C8: a suspended process blocks no signal, whatever mask it inherited and
\* whatever the local sigmask held, and has no signal pending; before the
\* suspension the mask is the inherited one, so the empty mask is never in
\* place by the program's doing while the process is not yet suspended.
C8_EmptyMaskWhileSuspended ==
  \A i \in Invocations :
    /\ run[i].pc = "suspended" => run[i].mask = {} /\ run[i].pending = {}
    /\ run[i].pc \in {"printf", "sigemptyset", "sigsuspend"} =>
         run[i].mask = env.mask

C8_Witness ==
  \E i \in Invocations :
    /\ run[i].pc = "suspended"
    /\ env.mask = Blockable
    /\ env.stack = Blockable
    /\ run[i].mask = {}

\* C9: the loop completes no more iterations than signals have been
\* delivered, and a suspended process changes in nothing in a step that
\* delivers no signal to it.
C9_NoBusySpin ==
  /\ [](\A i \in Invocations : run[i].iter <= Len(run[i].delivered))
  /\ [][\A i \in Invocations :
          (run[i].pc = "suspended" /\ run'[i].delivered = run[i].delivered)
            => run'[i] = run[i]]_vars

C9_Witness ==
  \E i \in Invocations :
    /\ run[i].pc = "suspended"
    /\ run[i].iter = 0
    /\ Len(run[i].delivered) = MaxSignals

====
